---- MODULE Spec2Model ----
(***************************************************************************)
(* Model of the `loop` iteration engine (src/src/main.rs): the outer loop  *)
(* of main that spawns one child per iteration, the select! that races the *)
(* deadline, the merged stdout/stderr line stream and child.wait(), the    *)
(* pure function check_line, and the tail of main that flushes the         *)
(* only-last buffer and exits.                                             *)
(*                                                                         *)
(* Option<T> is modelled as a sequence of length at most one: None is <<>> *)
(* and Some(x) is <<x>>.  A text line is a sequence of one-character       *)
(* strings.                                                                *)
(***************************************************************************)
EXTENDS Integers, Sequences, FiniteSets, TLC

\* ------------------------------------------------------------------ bounds
MaxSpawn == 3      \* children spawned over one run
MaxLines == 2      \* lines written by all children of one run
MaxCode  == 1      \* children exit with a code in 0..MaxCode
MaxLen   == 2      \* characters of a line, a needle or a pattern

\* ------------------------------------------------------- program constants
TIMEOUT_EXIT_CODE == 124
ERROR_EXIT_CODE   == 1     \* main returning Err(_)
PANIC_EXIT_CODE   == 101   \* .expect() on a missing stderr handle
DEFAULT_COUNT_BY  == 1

None    == <<>>
Some(x) == <<x>>
IsSome(o) == o # <<>>
IsNone(o) == o = <<>>

Channels == {"Stdout", "Stderr"}
Chars    == {"x", "y"}

RECURSIVE SeqsUpTo(_, _)
SeqsUpTo(S, n) ==
    IF n = 0 THEN {<<>>}
    ELSE LET shorter == SeqsUpTo(S, n - 1)
         IN  shorter \cup {Append(s, c) : s \in shorter, c \in S}

\* ----------------------------------------------------------- check_line
\* str::contains: some window of the line equals the needle (the empty
\* needle is contained in every line).
Contains(line, needle) ==
    \E i \in 0..(Len(line) - Len(needle)) :
        SubSeq(line, i + 1, i + Len(needle)) = needle

\* Regex::is_match for the fragment  ['^'] (literal | '.')* : an unanchored
\* search unless the pattern starts with '^'.
MatchesAt(re, line, i) ==
    /\ i + Len(re.pat) <= Len(line)
    /\ \A k \in 1..Len(re.pat) : re.pat[k] = "." \/ re.pat[k] = line[i + k]

IsMatch(re, line) ==
    \E i \in 0..Len(line) : (re.anchored => i = 0) /\ MatchesAt(re, line, i)

check_line_swapped(o, line, last) ==
    \/ IsSome(last) /\ o.until_changes /\ last[1] = line
    \/ IsSome(last) /\ o.until_same /\ last[1] # line
    \/ IsSome(o.until_match) /\ IsMatch(o.until_match[1], line)
    \/ IsSome(o.until_contains) /\ Contains(line, o.until_contains[1])

check_line(o, line, last) ==
    IF IsSome(last) /\ o.until_changes /\ last[1] # line THEN TRUE
    ELSE IF IsSome(last) /\ o.until_same /\ last[1] = line THEN TRUE
    ELSE IF IsSome(o.until_match) /\ IsMatch(o.until_match[1], line) THEN TRUE
    ELSE IF IsSome(o.until_contains) /\ Contains(line, o.until_contains[1]) THEN TRUE
    ELSE FALSE

\* ------------------------------------------------------------ item source
\* str::split(','): the pieces between the commas, empty pieces included.
RECURSIVE Split(_)
Split(s) ==
    IF \A i \in 1..Len(s) : s[i] # ","
    THEN <<s>>
    ELSE LET i == CHOOSE j \in 1..Len(s) :
                      s[j] = "," /\ \A k \in 1..(j - 1) : s[k] # ","
         IN  <<SubSeq(s, 1, i - 1)>> \o Split(SubSeq(s, i + 1, Len(s)))

\* opt.stdin / opt.ffor: the lines of standard input, the pieces of --for,
\* or no item source at all.
ItemSource(o) ==
    IF o.stdin THEN Some(o.stdin_lines)
    ELSE IF IsSome(o.ffor) THEN Some(Split(o.ffor[1]))
    ELSE None

\* ------------------------------------------------------------------ state
VARIABLES
    opt,            \* the parsed options (opt.num is the configured count)
    num,            \* opt.num as decremented by the loop
    elapsed,        \* the future `until` (for_duration / until_time) is ready
    summary,        \* Option<Summary>
    iteration,      \* iteration counter (ACTUALCOUNT)
    items,          \* Option<remaining items>
    output,         \* Option<Vec<Line>>: the only-last buffer
    last_stdout,    \* Option<String>
    last_stderr,    \* Option<String>
    output_closed,  \* local of the current iteration
    running,        \* local of the current iteration
    pc,             \* "start", "inner", "sleep", "done"
    exit,           \* Option<exit code of the whole run>
    err,            \* context of the error main returned, or "none"
    reason,         \* which break / return ended the run
    printed,        \* lines written by println / eprintln, in order
    report,         \* Option<what Summary::print printed>
    spawned,        \* environment given to each spawned child, in order
    child,          \* current child: "none", "running", "zombie", "reaped"
    status,         \* exit code of a terminated child (None: no code)
    pipe,           \* per channel: lines written and not yet read
    wopen,          \* per channel: the write end is still open
    written,        \* lines written by children so far
    current,        \* line events handled in the current iteration, in order
    seen,           \* per channel: the last two lines handled, oldest first
    call,           \* Option<the latest check_line call: ch, line, last, stop>
    live            \* children spawned and not yet reaped

vars == <<opt, num, elapsed, summary, iteration, items, output, last_stdout,
          last_stderr, output_closed, running, pc, exit, err, reason, printed,
          report, spawned, child, status, pipe, wopen, written, current,
          seen, call, live>>

NoPipes == [c \in Channels |-> <<>>]
AllShut == [c \in Channels |-> FALSE]
AllOpen == [c \in Channels |-> TRUE]

\* ----------------------------------------------------- helpers of the loop
\* Summary::print
SummaryPrint(s) ==
    [total     |-> s.successes + Len(s.failures),
     successes |-> s.successes,
     failures  |-> s.failures]

\* `for line in lines { line.println() }` after the loop
Flush(out, pr) == IF IsSome(out) THEN pr \o out[1] ELSE pr

\* main is left: the locals of the iteration and the read ends of the
\* child's pipes go out of scope (what was written and never read stays in
\* `pipe` as the lines that were lost).
Dropped ==
    /\ output_closed' = FALSE
    /\ running' = FALSE
    /\ wopen' = AllShut

\* The tail of main after `break 'outer code` / `break code`: flush the
\* only-last buffer, print the summary, std::process::exit(exit).
Finish(code, why, out, pr, sum) ==
    /\ pc' = "done"
    /\ exit' = Some(code)
    /\ reason' = why
    /\ output' = out
    /\ printed' = Flush(out, pr)
    /\ summary' = sum
    /\ report' = IF IsSome(sum) THEN Some(SummaryPrint(sum[1])) ELSE None
    /\ Dropped
    /\ UNCHANGED err

\* `?` / `return Err` / panic: main ends at once, nothing is flushed.
Fail(context, code) ==
    /\ pc' = "done"
    /\ exit' = Some(code)
    /\ err' = context
    /\ reason' = "fatal"
    /\ Dropped
    /\ UNCHANGED <<printed, report>>

ChildEnv_constant_counter ==
    [COUNT       |-> (IF IsSome(opt.offset) THEN opt.offset[1] ELSE 0)
                        + iteration * opt.count_by,
     ACTUALCOUNT |-> 0,
     ITEM        |-> IF IsSome(items) THEN Some(Head(items[1])) ELSE None]

\* Environment of the child spawned now.
ChildEnv ==
    [COUNT       |-> (IF IsSome(opt.offset) THEN opt.offset[1] ELSE 0)
                        + iteration * opt.count_by,
     ACTUALCOUNT |-> iteration,
     ITEM        |-> IF IsSome(items) THEN Some(Head(items[1])) ELSE None]

TakeItem_keeps_item == items

\* items.next() yielded Some(f)
TakeItem == IF IsSome(items) THEN Some(Tail(items[1])) ELSE None

ClearOutput_keeps(out) == out

\* `l.clear()` on the only-last buffer
ClearOutput(out) == IF IsSome(out) THEN Some(<<>>) ELSE None

\* `*n -= 1`
Decrement(n) == IF IsSome(n) THEN Some(n[1] - 1) ELSE None

\* command.spawn() succeeded: one more child, running
Spawn ==
    /\ Len(spawned) < MaxSpawn
    /\ items' = TakeItem
    /\ spawned' = Append(spawned, ChildEnv)
    /\ child' = "running"
    /\ status' = None
    /\ pipe' = NoPipes
    /\ live' = live + 1

\* the loop reaches command.spawn(): no item source, or it gave an item
ReachesSpawn ==
    /\ pc = "start"
    /\ IsSome(items) => items[1] # <<>>

\* `break 'inner`, `iteration += 1`; child and streams go out of scope
IterationDone ==
    /\ iteration' = iteration + 1
    /\ pc' = IF opt.every THEN "sleep" ELSE "start"
    /\ child' = "none"
    /\ status' = None
    /\ pipe' = NoPipes
    /\ wopen' = AllShut
    /\ running' = FALSE
    /\ output_closed' = FALSE

Replace_returns_new(need_last, mem, l) ==
    IF need_last THEN <<Some(l), Some(l)>> ELSE <<mem, None>>

Replace_always_remembers(need_last, mem, l) == <<Some(l), mem>>

\* need_last.then(|| last.replace(l)).flatten(): <<new memory, last>>
Replace(need_last, mem, l) ==
    IF need_last THEN <<Some(l), mem>> ELSE <<mem, None>>

StopOnExit_ignores_code(o, code) ==
    IF o.until_fail /\ code # 0 THEN TRUE
    ELSE o.until_success /\ code = 0

\* the three exit predicates, in source order
StopOnExit(o, code) ==
    IF o.until_fail /\ code # 0 THEN TRUE
    ELSE IF o.until_success /\ code = 0 THEN TRUE
    ELSE o.until_code = Some(code)

DeadlineCode_always_zero(o) == 0

\* exit code of the deadline branch
DeadlineCode(o) == IF o.error_duration THEN TIMEOUT_EXIT_CODE ELSE 0

Record_only_failures(sum, code) ==
    IF IsNone(sum) \/ code = 0 THEN sum
    ELSE Some([sum[1] EXCEPT !.failures = Append(@, code)])

\* summary update on an observed exit
Record(sum, code) ==
    IF IsNone(sum) THEN None
    ELSE IF code = 0
         THEN Some([sum[1] EXCEPT !.successes = @ + 1])
         ELSE Some([sum[1] EXCEPT !.failures = Append(@, code)])

\* a channel's line stream has ended: write end closed and nothing unread
StreamEnded(ch) == pipe[ch] = <<>> /\ ~wopen[ch]

\* the last two lines handled on a channel, after one more
Shift(two, l) == IF two = <<>> THEN <<l>> ELSE <<two[Len(two)], l>>

\* ---------------------------------------------- start of an iteration
\* items.next() is None: `break 0` before anything is spawned
ItemsExhausted ==
    /\ pc = "start"
    /\ IsSome(items) /\ items[1] = <<>>
    /\ Finish(0, "items", output, printed, summary)
    /\ UNCHANGED <<opt, num, elapsed, iteration, items, last_stdout,
                       last_stderr, spawned, child, status, pipe, written,
                       current, seen, call, live>>

\* command.spawn()? fails
SpawnFailed ==
    /\ ReachesSpawn
    /\ items' = TakeItem
    /\ Fail("spawn", ERROR_EXIT_CODE)
    /\ UNCHANGED <<opt, num, elapsed, summary, iteration, output, last_stdout,
                       last_stderr, spawned, child, status, pipe, written,
                       current, seen, call, live>>

CountExhausted_with_failure ==
    /\ ReachesSpawn
    /\ Spawn
    /\ num = Some(0)
    /\ Finish(ERROR_EXIT_CODE, "count", output, printed, summary)
    /\ UNCHANGED <<opt, num, elapsed, iteration, last_stdout, last_stderr,
                       written, current, seen, call>>

\* the child is spawned, then opt.num is found to be 0: `break 0`
CountExhausted ==
    /\ ReachesSpawn
    /\ Spawn
    /\ num = Some(0)
    /\ Finish(0, "count", output, printed, summary)
    /\ UNCHANGED <<opt, num, elapsed, iteration, last_stdout, last_stderr,
                       written, current, seen, call>>

\* child.stdout.take() is None (`?`) or child.stderr.take() is None (panic)
HandleFailed ==
    /\ ReachesSpawn
    /\ Spawn
    /\ num # Some(0)
    /\ num' = Decrement(num)
    /\ output' = ClearOutput(output)
    /\ current' = <<>>
    /\ \E ch \in Channels :
          IF ch = "Stdout"
          THEN Fail("failed to get stdout", ERROR_EXIT_CODE)
          ELSE Fail("failed to get stderr", PANIC_EXIT_CODE)
    /\ UNCHANGED <<opt, elapsed, summary, iteration, last_stdout, last_stderr,
                       written, seen, call>>

\* the iteration enters the select! loop
StartChild ==
    /\ ReachesSpawn
    /\ Spawn
    /\ num # Some(0)
    /\ num' = Decrement(num)
    /\ output' = ClearOutput(output)
    /\ current' = <<>>
    /\ output_closed' = FALSE
    /\ running' = TRUE
    /\ wopen' = AllOpen
    /\ pc' = "inner"
    /\ UNCHANGED <<opt, elapsed, summary, iteration, last_stdout, last_stderr,
                       exit, err, reason, printed, report, written, seen,
                       call>>

\* ------------------------------------------------- branches of select!
DeadlineKill_without_reaping ==
    /\ pc = "inner"
    /\ elapsed
    /\ Finish(DeadlineCode(opt), "deadline", output, printed, summary)
    /\ UNCHANGED <<opt, num, elapsed, iteration, items, last_stdout,
                       last_stderr, spawned, child, status, pipe, written,
                       current, seen, call, live>>

\* `_ = &mut until`: child.kill().await succeeds (killed and reaped)
DeadlineKill ==
    /\ pc = "inner"
    /\ elapsed
    /\ child' = "reaped"
    /\ status' = IF child = "running" THEN None ELSE status
    /\ live' = IF child = "reaped" THEN live ELSE live - 1
    /\ Finish(DeadlineCode(opt), "deadline", output, printed, summary)
    /\ UNCHANGED <<opt, num, elapsed, iteration, items, last_stdout,
                       last_stderr, spawned, pipe, written, current, seen,
                       call>>

\* `_ = &mut until`: child.kill().await fails
DeadlineKillFailed ==
    /\ pc = "inner"
    /\ elapsed
    /\ Fail("failed to terminate child process", ERROR_EXIT_CODE)
    /\ UNCHANGED <<opt, num, elapsed, summary, iteration, items, output,
                       last_stdout, last_stderr, spawned, child, status, pipe,
                       written, current, seen, call, live>>

LineOk_breaks_before_emitting(ch) ==
    /\ pc = "inner"
    /\ pipe[ch] # <<>>
    /\ LET l         == Head(pipe[ch])
           need_last == opt.until_same \/ opt.until_changes
           mem       == IF ch = "Stdout" THEN last_stdout ELSE last_stderr
           swap      == Replace(need_last, mem, l)
           last      == swap[2]
           do_break  == check_line(opt, l, last)
           line      == [ch |-> ch, l |-> l]
           out       == IF IsSome(output)
                        THEN Some(Append(output[1], line)) ELSE None
           pr        == IF IsSome(output) THEN printed
                        ELSE Append(printed, line)
       IN  /\ pipe' = [pipe EXCEPT ![ch] = Tail(@)]
           /\ last_stdout' = IF ch = "Stdout" THEN swap[1] ELSE last_stdout
           /\ last_stderr' = IF ch = "Stderr" THEN swap[1] ELSE last_stderr
           /\ current' = Append(current, line)
           /\ seen' = [seen EXCEPT ![ch] = Shift(@, l)]
           /\ call' = Some([ch |-> ch, line |-> l, last |-> last,
                            stop |-> do_break])
           /\ IF do_break
              THEN Finish(0, "line", output, printed, summary)
              ELSE /\ output' = out
                   /\ printed' = pr
                   /\ UNCHANGED <<pc, exit, err, reason, summary, report,
                                  output_closed, running, wopen>>
    /\ UNCHANGED <<opt, num, elapsed, iteration, items, spawned, child,
                       status, written, live>>

\* stdout_err.next() is Some(Line::Stdout(Ok(l))) or Some(Line::Stderr(Ok(l)))
LineOk(ch) ==
    /\ pc = "inner"
    /\ pipe[ch] # <<>>
    /\ LET l         == Head(pipe[ch])
           need_last == opt.until_same \/ opt.until_changes
           mem       == IF ch = "Stdout" THEN last_stdout ELSE last_stderr
           swap      == Replace(need_last, mem, l)
           last      == swap[2]
           do_break  == check_line(opt, l, last)
           line      == [ch |-> ch, l |-> l]
           out       == IF IsSome(output)
                        THEN Some(Append(output[1], line)) ELSE None
           pr        == IF IsSome(output) THEN printed
                        ELSE Append(printed, line)
       IN  /\ pipe' = [pipe EXCEPT ![ch] = Tail(@)]
           /\ last_stdout' = IF ch = "Stdout" THEN swap[1] ELSE last_stdout
           /\ last_stderr' = IF ch = "Stderr" THEN swap[1] ELSE last_stderr
           /\ current' = Append(current, line)
           /\ seen' = [seen EXCEPT ![ch] = Shift(@, l)]
           /\ call' = Some([ch |-> ch, line |-> l, last |-> last,
                            stop |-> do_break])
           /\ IF do_break
              THEN Finish(0, "line", out, pr, summary)
              ELSE /\ output' = out
                   /\ printed' = pr
                   /\ UNCHANGED <<pc, exit, err, reason, summary, report,
                                  output_closed, running, wopen>>
    /\ UNCHANGED <<opt, num, elapsed, iteration, items, spawned, child,
                       status, written, live>>

LineErr_skipped(ch) ==
    /\ pc = "inner"
    /\ ~StreamEnded(ch)
    /\ err' = "io error"
    /\ UNCHANGED <<opt, num, elapsed, summary, iteration, items, output,
                       last_stdout, last_stderr, output_closed, running, pc,
                       exit, reason, printed, report, spawned, child, status,
                       pipe, wopen, written, current, seen, call, live>>

\* stdout_err.next() is Some(Line::Stdout(Err(_))) or Some(Line::Stderr(Err(_)))
LineErr(ch) ==
    /\ pc = "inner"
    /\ ~StreamEnded(ch)
    /\ Fail("io error", ERROR_EXIT_CODE)
    /\ UNCHANGED <<opt, num, elapsed, summary, iteration, items, output,
                       last_stdout, last_stderr, spawned, child, status, pipe,
                       written, current, seen, call, live>>

OutputNone_never_breaks ==
    /\ pc = "inner"
    /\ \A ch \in Channels : StreamEnded(ch)
    /\ output_closed' = TRUE
    /\ UNCHANGED <<opt, num, elapsed, summary, iteration, items, output,
                       last_stdout, last_stderr, running, pc, exit, err,
                       reason, printed, report, spawned, child, status, pipe,
                       wopen, written, current, seen, call, live>>

OutputNone_ignores_running ==
    /\ pc = "inner"
    /\ \A ch \in Channels : StreamEnded(ch)
    /\ IterationDone
    /\ UNCHANGED <<opt, num, elapsed, summary, items, output, last_stdout,
                       last_stderr, exit, err, reason, printed, report,
                       spawned, written, current, seen, call, live>>

\* stdout_err.next() is None: both line streams have ended
OutputNone ==
    /\ pc = "inner"
    /\ \A ch \in Channels : StreamEnded(ch)
    /\ IF ~running
       THEN IterationDone
       ELSE /\ output_closed' = TRUE
            /\ UNCHANGED <<iteration, pc, child, status, pipe, wopen, running>>
    /\ UNCHANGED <<opt, num, elapsed, summary, items, output, last_stdout,
                       last_stderr, exit, err, reason, printed, report,
                       spawned, written, current, seen, call, live>>

\* `exit = child.wait(), if running`: wait() itself fails
WaitFailed ==
    /\ pc = "inner"
    /\ running
    /\ Fail("failed to get process exist status", ERROR_EXIT_CODE)
    /\ UNCHANGED <<opt, num, elapsed, summary, iteration, items, output,
                       last_stdout, last_stderr, spawned, child, status, pipe,
                       written, current, seen, call, live>>

\* `exit = child.wait(), if running`: the status has no exit code
WaitNoCode ==
    /\ pc = "inner"
    /\ running
    /\ child = "zombie" /\ IsNone(status)
    /\ child' = "reaped"
    /\ live' = live - 1
    /\ Fail("failed to get exit code", ERROR_EXIT_CODE)
    /\ UNCHANGED <<opt, num, elapsed, summary, iteration, items, output,
                       last_stdout, last_stderr, spawned, status, pipe,
                       written, current, seen, call>>

\* `exit = child.wait(), if running`: the child exited with a code
WaitExit ==
    /\ pc = "inner"
    /\ running
    /\ child = "zombie" /\ IsSome(status)
    /\ live' = live - 1
    /\ LET exit_code == status[1]
           sum       == Record(summary, exit_code)
       IN  IF StopOnExit(opt, exit_code)
           THEN /\ Finish(exit_code, "exit", output, printed, sum)
                /\ child' = "reaped"
                /\ UNCHANGED <<iteration, status, pipe>>
           ELSE IF output_closed
           THEN /\ IterationDone
                /\ summary' = sum
                /\ UNCHANGED <<exit, err, reason, output, printed, report>>
           ELSE /\ running' = FALSE
                /\ child' = "reaped"
                /\ summary' = sum
                /\ UNCHANGED <<iteration, pc, status, pipe, wopen,
                               output_closed, exit, err, reason, output,
                               printed, report>>
    /\ UNCHANGED <<opt, num, elapsed, items, last_stdout, last_stderr,
                       spawned, written, current, seen, call>>

Sleep_subject_to_deadline ==
    /\ pc = "sleep"
    /\ IF elapsed
       THEN Finish(DeadlineCode(opt), "deadline", output, printed, summary)
       ELSE /\ pc' = "start"
            /\ UNCHANGED <<exit, reason, output, printed, summary, report,
                           output_closed, running, wopen, err>>
    /\ UNCHANGED <<opt, num, elapsed, iteration, items, last_stdout,
                       last_stderr, spawned, child, status, pipe, written,
                       current, seen, call, live>>

\* time::sleep(every).await
Sleep ==
    /\ pc = "sleep"
    /\ pc' = "start"
    /\ UNCHANGED <<opt, num, elapsed, summary, iteration, items, output,
                       last_stdout, last_stderr, output_closed, running, exit,
                       err, reason, printed, report, spawned, child, status,
                       pipe, wopen, written, current, seen, call, live>>

\* ------------------------------------------------------- the environment
\* the child writes a line the command can print
ChildWrite(ch, l) ==
    /\ pc = "inner"
    /\ child = "running"
    /\ wopen[ch]
    /\ l \in opt.input.lines
    /\ written < MaxLines
    /\ pipe' = [pipe EXCEPT ![ch] = Append(@, l)]
    /\ written' = written + 1
    /\ UNCHANGED <<opt, num, elapsed, summary, iteration, items, output,
                       last_stdout, last_stderr, output_closed, running, pc,
                       exit, err, reason, printed, report, spawned, child,
                       status, wopen, current, seen, call, live>>

\* the last write end of a channel is closed (by the child, or by a
\* descendant that outlives it)
ChildClose(ch) ==
    /\ pc = "inner"
    /\ wopen[ch]
    /\ wopen' = [wopen EXCEPT ![ch] = FALSE]
    /\ UNCHANGED <<opt, num, elapsed, summary, iteration, items, output,
                       last_stdout, last_stderr, output_closed, running, pc,
                       exit, err, reason, printed, report, spawned, child,
                       status, pipe, written, current, seen, call, live>>

\* the child terminates by itself: with an exit code, or by a signal
ChildTerminate(st) ==
    /\ pc = "inner"
    /\ child = "running"
    /\ st \in opt.input.exits
    /\ child' = "zombie"
    /\ status' = st
    /\ UNCHANGED <<opt, num, elapsed, summary, iteration, items, output,
                       last_stdout, last_stderr, output_closed, running, pc,
                       exit, err, reason, printed, report, spawned, pipe,
                       wopen, written, current, seen, call, live>>

DeadlineElapse_only_during_delay ==
    /\ pc = "sleep"
    /\ opt.for_duration \/ opt.until_time
    /\ ~elapsed
    /\ elapsed' = TRUE
    /\ UNCHANGED <<opt, num, summary, iteration, items, output, last_stdout,
                       last_stderr, output_closed, running, pc, exit, err,
                       reason, printed, report, spawned, child, status, pipe,
                       wopen, written, current, seen, call, live>>

\* the timer of for_duration or until_time runs out
DeadlineElapse ==
    /\ pc # "done"
    /\ opt.for_duration \/ opt.until_time
    /\ ~elapsed
    /\ elapsed' = TRUE
    /\ UNCHANGED <<opt, num, summary, iteration, items, output, last_stdout,
                       last_stderr, output_closed, running, pc, exit, err,
                       reason, printed, report, spawned, child, status, pipe,
                       wopen, written, current, seen, call, live>>

ExitCodes == 0..MaxCode
Statuses == {Some(c) : c \in ExitCodes} \cup {None}
\* the statuses of Statuses and the exit code that equals the timeout code
AllStatuses == Statuses \cup {Some(TIMEOUT_EXIT_CODE)}
Lines == SeqsUpTo(Chars, MaxLen)

Next ==
    \/ ItemsExhausted
    \/ SpawnFailed
    \/ CountExhausted
    \/ HandleFailed
    \/ StartChild
    \/ DeadlineKill
    \/ DeadlineKillFailed
    \/ \E ch \in Channels : LineOk(ch)
    \/ \E ch \in Channels : LineErr(ch)
    \/ OutputNone
    \/ WaitFailed
    \/ WaitNoCode
    \/ WaitExit
    \/ Sleep
    \/ \E ch \in Channels, l \in Lines : ChildWrite(ch, l)
    \/ \E ch \in Channels : ChildClose(ch)
    \/ \E st \in AllStatuses : ChildTerminate(st)
    \/ DeadlineElapse

\* ------------------------------------------------------------ initial state
InitRun(o) ==
    /\ opt = o
    /\ num = o.num
    /\ elapsed = FALSE
    /\ summary = IF o.summary THEN Some([successes |-> 0, failures |-> <<>>])
                 ELSE None
    /\ iteration = 0
    /\ items = ItemSource(o)
    /\ output = IF o.only_last THEN Some(<<>>) ELSE None
    /\ last_stdout = None
    /\ last_stderr = None
    /\ output_closed = FALSE
    /\ running = FALSE
    /\ pc = "start"
    /\ exit = None
    /\ err = "none"
    /\ reason = "none"
    /\ printed = <<>>
    /\ report = None
    /\ spawned = <<>>
    /\ child = "none"
    /\ status = None
    /\ pipe = NoPipes
    /\ wopen = AllShut
    /\ written = 0
    /\ current = <<>>
    /\ seen = NoPipes
    /\ call = None
    /\ live = 0

\* ------------------------------------------------------ options explored
\* The command (opt.input) is known by what it can do: the lines it can
\* print and the ways it can end (Some(code), or None: killed by a signal).
Command(lines, exits) == [lines |-> lines, exits |-> exits]

AnyExit     == Command({<<"x">>}, Statuses)
AlwaysFails == Command({<<"x">>}, {Some(1)})
Text        == Command({<<"x">>, <<"x", "y">>}, {Some(0)})
TextAnyExit == Command({<<"x">>, <<"x", "y">>}, Statuses)

\* patterns of --until-match
Regex(anchored, pat) == [anchored |-> anchored, pat |-> pat]

Plain ==
    [input |-> AnyExit,
     num |-> None, count_by |-> DEFAULT_COUNT_BY, offset |-> None,
     every |-> FALSE, ffor |-> None, stdin |-> FALSE, stdin_lines |-> <<>>,
     for_duration |-> FALSE, until_time |-> FALSE,
     until_contains |-> None, until_changes |-> FALSE, until_same |-> FALSE,
     until_match |-> None, until_code |-> None, until_success |-> FALSE,
     until_fail |-> FALSE, only_last |-> FALSE, error_duration |-> FALSE,
     summary |-> FALSE]

\* item sources: none, standard input with 0..1 lines, --for p,q, --for ""
Sources ==
    {[stdin |-> FALSE, stdin_lines |-> <<>>, ffor |-> None],
     [stdin |-> TRUE, stdin_lines |-> <<>>, ffor |-> None],
     [stdin |-> TRUE, stdin_lines |-> << <<"p">> >>, ffor |-> None],
     [stdin |-> FALSE, stdin_lines |-> <<>>, ffor |-> Some(<<"p", ",", "q">>)],
     [stdin |-> FALSE, stdin_lines |-> <<>>, ffor |-> Some(<<>>)]}

WithSource(o, src) ==
    [o EXCEPT !.stdin = src.stdin, !.stdin_lines = src.stdin_lines,
              !.ffor = src.ffor]

CountOpts ==
    {[Plain EXCEPT !.num = Some(n), !.every = v] :
        n \in 0..(MaxSpawn - 1), v \in BOOLEAN}

ItemOpts ==
    {WithSource([Plain EXCEPT !.num = n], src) :
        n \in {None, Some(1)}, src \in Sources}

ExitOpts ==
    {[Plain EXCEPT !.until_fail = f, !.until_success = s, !.until_code = c] :
        f \in BOOLEAN, s \in BOOLEAN,
        c \in {None} \cup {Some(k) : k \in ExitCodes}}

DeadlineOpts ==
    {[Plain EXCEPT !.for_duration = d, !.until_time = ~d,
                   !.error_duration = e, !.until_fail = f,
                   !.until_code = c] :
        d \in BOOLEAN, e \in BOOLEAN, f \in BOOLEAN, c \in {None, Some(0)}}

FailOpts == {[Plain EXCEPT !.input = AlwaysFails, !.until_fail = TRUE]}

\* content predicates, with and without only-last
TextOpts ==
    {[Plain EXCEPT !.input = Text, !.until_contains = cm[1],
                   !.until_match = cm[2], !.until_changes = ch,
                   !.until_same = sa, !.only_last = ol] :
        cm \in {<<None, None>>, <<Some(<<"y">>), None>>,
                <<None, Some(Regex(TRUE, <<"x", ".">>))>>},
        ch \in BOOLEAN, sa \in BOOLEAN, ol \in BOOLEAN}

\* only-last with every way a run can end
Last == [Plain EXCEPT !.input = TextAnyExit, !.only_last = TRUE]

LastOpts ==
    {[Last EXCEPT !.num = Some(MaxSpawn - 1), !.every = TRUE],
     [Last EXCEPT !.ffor = Some(<<"p", ",", "q">>)],
     [Last EXCEPT !.until_fail = TRUE],
     [Last EXCEPT !.for_duration = TRUE],
     [Last EXCEPT !.num = Some(1), !.ffor = Some(<<"p", ",", "q">>),
                  !.until_code = Some(0), !.until_time = TRUE,
                  !.error_duration = TRUE]}

Opts ==
    CountOpts \cup ItemOpts \cup ExitOpts \cup DeadlineOpts \cup FailOpts

Init == \E o \in Opts : InitRun(o)

\* Runs under the options on counts, items, exit predicates and deadlines.
Spec == Init /\ [][Next]_vars

InitText == \E o \in TextOpts \cup LastOpts : InitRun(o)

\* Runs under the options on line content and only-last output.
SpecText == InitText /\ [][Next]_vars

\* ------------------------------------------------- check_line on its own
\* One call of check_line on a line and a previous line drawn from Lines.
Evaluate ==
    /\ pc = "start"
    /\ IsNone(call)
    /\ \E l \in Lines, last \in {None} \cup {Some(p) : p \in Lines} :
          call' = Some([ch |-> "Stdout", line |-> l, last |-> last,
                        stop |-> check_line(opt, l, last)])
    /\ UNCHANGED <<opt, num, elapsed, summary, iteration, items, output,
                       last_stdout, last_stderr, output_closed, running, pc,
                       exit, err, reason, printed, report, spawned, child,
                       status, pipe, wopen, written, current, seen, live>>

Patterns ==
    {Regex(a, p) : a \in BOOLEAN, p \in SeqsUpTo(Chars \cup {"."}, MaxLen)}

EvalOpts ==
    {[Plain EXCEPT !.until_changes = ch, !.until_same = sa,
                   !.until_match = m, !.until_contains = c] :
        ch \in BOOLEAN, sa \in BOOLEAN,
        m \in {None} \cup {Some(r) : r \in Patterns},
        c \in {None} \cup {Some(n) : n \in Lines}}

InitEval == \E o \in EvalOpts : InitRun(o)

NextEval == Evaluate

\* check_line applied to every line and previous line, under every
\* combination of content predicates.
SpecEval == InitEval /\ [][NextEval]_vars

\* ================================================================ claims
\* no content predicate, exit predicate or deadline is configured
NoStopPredicate(o) ==
    /\ ~o.for_duration /\ ~o.until_time
    /\ IsNone(o.until_contains) /\ IsNone(o.until_match)
    /\ ~o.until_changes /\ ~o.until_same
    /\ IsNone(o.until_code) /\ ~o.until_success /\ ~o.until_fail

\* the deadline branch of select! was taken
DeadlineTaken ==
    reason = "deadline" \/ err = "failed to terminate child process"

\* C1: a run that ends because the count budget N is found exhausted has
\* spawned exactly N children (none when N = 0) and ends with code 0.
C1_SpawnsExactlyN ==
    (pc = "done" /\ reason = "count")
        => (Len(spawned) = opt.num[1] /\ exit = Some(0))

\* an exit predicate applies to exit code c
ExitApplies(o, c) ==
    \/ o.until_fail /\ c # 0
    \/ o.until_success /\ c = 0
    \/ o.until_code = Some(c)

\* C2: when a child's exit with code c is observed and stop-on-fail,
\* stop-on-success or stop-on-specific-code applies to c, the run ends in
\* that step with exit code c and without another spawn, and otherwise the
\* run goes on; a finished run never spawns again; with stop-on-fail alone
\* and a command that always exits 1 the run ends in its first iteration
\* with exit code 1.
C2_ExitPredicates ==
    /\ [][WaitExit =>
            IF ExitApplies(opt, status[1])
            THEN /\ pc' = "done" /\ reason' = "exit"
                 /\ exit' = Some(status[1])
                 /\ spawned' = spawned
            ELSE pc' # "done" /\ exit' = None]_vars
    /\ [][pc = "done" => (pc' = "done" /\ spawned' = spawned)]_vars
    /\ []((opt.until_fail /\ opt.input.exits = {Some(1)})
            => /\ iteration = 0
               /\ Len(spawned) <= 1
               /\ (pc = "done" /\ err = "none") => exit = Some(1))

C2_Witness ==
    /\ pc = "done" /\ reason = "exit" /\ exit = Some(1)
    /\ opt.until_fail /\ opt.input.exits = {Some(1)}
    /\ Len(spawned) = 1

Source == ItemSource(opt)[1]

\* C5: every child gets the item at its position in the source; a run that
\* ends because the source is exhausted has run one iteration per item,
\* spawned one child per item and ends with code 0; with an item source and
\* no count limit, stop predicate or deadline, a run that ends without a
\* fatal error ends that way.
C5_OneIterationPerItem ==
    /\ IsSome(ItemSource(opt))
          => /\ Len(spawned) <= Len(Source)
             /\ \A i \in 1..Len(spawned) : spawned[i].ITEM = Some(Source[i])
    /\ (pc = "done" /\ reason = "items")
          => /\ exit = Some(0)
             /\ iteration = Len(Source)
             /\ Len(spawned) = Len(Source)
    /\ (/\ IsSome(ItemSource(opt)) /\ IsNone(opt.num) /\ NoStopPredicate(opt)
        /\ pc = "done" /\ err = "none")
          => reason = "items"

C5_Witness ==
    /\ pc = "done" /\ reason = "items"
    /\ IsNone(opt.num) /\ NoStopPredicate(opt)
    /\ Len(spawned) = 2 /\ iteration = 2

\* C6: in only-last mode nothing is printed while the run goes on; a run
\* that ends without a fatal error prints exactly the lines handled in its
\* last iteration, in the order they were handled, and none of an earlier
\* iteration; a run that ends with a fatal error prints nothing.
C6_OnlyLast ==
    opt.only_last
        => /\ pc # "done" => printed = <<>>
           /\ (pc = "done" /\ err = "none") => printed = current
           /\ (pc = "done" /\ err # "none") => printed = <<>>

C6_Witness ==
    /\ opt.only_last /\ pc = "done" /\ err = "none"
    /\ iteration >= 1
    /\ Len(printed) = 1 /\ written = 2
    /\ \A ch \in Channels : pipe[ch] = <<>>

\* the line of the latest check_line call, as it is emitted
CallLine == [ch |-> call[1].ch, l |-> call[1].line]

\* C7: a line on which check_line returns true ends the run in that step
\* with code 0, is the last line printed (the last line of the flushed buffer
\* in only-last mode), and the step spawns nothing; a run ended by a line is
\* ended by such a line; a finished run prints and spawns nothing more.
C7_StopLine ==
    /\ []((IsSome(call) /\ call[1].stop)
            => /\ pc = "done" /\ reason = "line" /\ exit = Some(0)
               /\ printed # <<>> /\ printed[Len(printed)] = CallLine)
    /\ []((pc = "done" /\ reason = "line") => (IsSome(call) /\ call[1].stop))
    /\ [][\A ch \in Channels :
            (LineOk(ch) /\ call'[1].stop)
                => (spawned' = spawned /\ Len(printed') > Len(printed))]_vars
    /\ [][pc = "done" => UNCHANGED <<printed, spawned, pc>>]_vars

C7_Witness ==
    /\ pc = "done" /\ reason = "line" /\ exit = Some(0)
    /\ opt.only_last
    /\ Len(printed) = 2 /\ printed[2] = CallLine
    /\ child = "running"

\* only the unchanged / only the changed predicate is configured
OnlySame(o) ==
    /\ o.until_same /\ ~o.until_changes
    /\ IsNone(o.until_match) /\ IsNone(o.until_contains)

OnlyChanges(o) ==
    /\ o.until_changes /\ ~o.until_same
    /\ IsNone(o.until_match) /\ IsNone(o.until_contains)

\* needle occurs in line: line is some prefix, the needle, some suffix
Occurs(needle, line) ==
    \E i \in 0..Len(line), j \in 1..(Len(line) + 1) :
        SubSeq(line, 1, i) \o needle \o SubSeq(line, j, Len(line)) = line

Memory(ch) == IF ch = "Stdout" THEN last_stdout ELSE last_stderr

\* C9: with the changed or the unchanged predicate active, the memory of
\* each channel holds the last line handled on that channel in any iteration
\* (nothing before the first), and the previous line given to check_line
\* with a line is the line handled before it on the same channel (absent for
\* the first line of the channel), also across iterations.
C9_LastLineMemory ==
    (opt.until_changes \/ opt.until_same)
        => /\ \A ch \in Channels :
                Memory(ch) = IF seen[ch] = <<>> THEN None
                             ELSE Some(seen[ch][Len(seen[ch])])
           /\ IsSome(call)
                => call[1].last = IF Len(seen[call[1].ch]) = 2
                                  THEN Some(seen[call[1].ch][1])
                                  ELSE None

C9_Witness ==
    /\ opt.until_same
    /\ iteration >= 1 /\ Len(current) = 1
    /\ IsSome(call) /\ call[1].ch = "Stderr"
    /\ IsSome(call[1].last) /\ call[1].last # Some(call[1].line)
    /\ IsNone(last_stdout)

\* a fatal condition happens in this step
FatalStep ==
    \/ SpawnFailed
    \/ HandleFailed
    \/ \E ch \in Channels : LineErr(ch)
    \/ WaitFailed
    \/ WaitNoCode

\* C10: a spawn failure, a missing output handle, an error on an output
\* channel, a wait failure and an exit status without a code each end the
\* run in the step they happen in, with a non-zero exit code; after an error
\* nothing is retried: no iteration is started and no child is spawned.
C10_FatalAborts ==
    /\ [][FatalStep => (err' # "none" /\ pc' = "done")]_vars
    /\ [](err # "none"
            => (pc = "done" /\ reason = "fatal" /\ IsSome(exit) /\ exit[1] # 0))
    /\ [][err # "none" => UNCHANGED <<pc, iteration, spawned, child>>]_vars

C10_Witness ==
    /\ pc = "done" /\ err = "io error" /\ exit = Some(ERROR_EXIT_CODE)
    /\ iteration = 1 /\ Len(spawned) = 2

\* C11: the iteration counter moves only by one, only out of the draining
\* loop, and only when both line streams have ended and the child's exit
\* has been observed (by the step itself or before it); a child is spawned
\* only when no spawned child is unreaped, so at most one child is unreaped
\* at any time.
C11_Sequential ==
    /\ [](live <= 1)
    /\ [][iteration' # iteration
            => /\ iteration' = iteration + 1
               /\ pc = "inner"
               /\ \A ch \in Channels : StreamEnded(ch)
               /\ \/ OutputNone /\ ~running /\ child = "reaped"
                  \/ WaitExit /\ output_closed /\ child = "zombie"]_vars
    /\ [][spawned' # spawned => (live = 0 /\ child = "none")]_vars

C11_Witness ==
    /\ iteration = 1 /\ pc = "inner"
    /\ Len(spawned) = 2 /\ live = 1
    /\ child = "running"

\* ------------------------------------------ every way a run can end
\* a command that can also exit with the code used for timeouts
ExitsTimeoutCode == Command({<<"x">>}, AllStatuses)

\* a command that succeeds or fails with 1
TwoExits == Command({<<"x">>}, {Some(0), Some(1)})

Counted == [Plain EXCEPT !.input = TwoExits, !.summary = TRUE]

\* summary mode with a count, items, a content predicate, exit predicates
\* and deadlines (with and without timeout-is-error, with a delay)
EndOpts ==
    {[Counted EXCEPT !.num = Some(1), !.every = TRUE],
     [Counted EXCEPT !.ffor = Some(<<"p", ",", "q">>)],
     [Counted EXCEPT !.until_contains = Some(<<"x">>)],
     [Counted EXCEPT !.input = ExitsTimeoutCode, !.until_fail = TRUE],
     [Counted EXCEPT !.input = ExitsTimeoutCode, !.until_success = TRUE,
                     !.until_code = Some(TIMEOUT_EXIT_CODE)],
     [Counted EXCEPT !.for_duration = TRUE, !.error_duration = TRUE,
                     !.every = TRUE],
     [Counted EXCEPT !.until_time = TRUE, !.every = TRUE],
     [Counted EXCEPT !.input = ExitsTimeoutCode, !.for_duration = TRUE,
                     !.error_duration = TRUE, !.until_fail = TRUE]}

InitEnd == \E o \in EndOpts : InitRun(o)

\* Runs in summary mode that end in every way a run can end.
SpecEnd == InitEnd /\ [][Next]_vars

\* C12 as stated: a run that ends without a fatal error ends with the
\* timeout code only if the deadline fired with timeout-is-error configured.
C12_TimeoutCodeOnlyByDeadline ==
    (pc = "done" /\ err = "none" /\ exit = Some(TIMEOUT_EXIT_CODE))
        => (reason = "deadline" /\ opt.error_duration)

\* C12: a run that ends without a fatal error ends with 0 when ended by a
\* line, the count or the items; with the timeout code or 0 when ended by
\* the deadline, the timeout code exactly if timeout-is-error is configured;
\* with the code of the child whose exit was observed when ended by an exit
\* predicate, which then applies to that code; so a run ends with the timeout
\* code only by the deadline with timeout-is-error configured or by an exit
\* predicate on a child that itself exited with the timeout code.
C12_ExitCode ==
    (pc = "done" /\ err = "none")
        => /\ IsSome(exit)
           /\ reason \in {"line", "count", "items", "deadline", "exit"}
           /\ reason \in {"line", "count", "items"} => exit = Some(0)
           /\ reason = "deadline" => exit = Some(DeadlineCode(opt))
           /\ reason = "exit"
                => /\ IsSome(status) /\ exit = status
                   /\ ExitApplies(opt, status[1])
           /\ exit = Some(TIMEOUT_EXIT_CODE)
                => \/ reason = "deadline" /\ opt.error_duration
                   \/ reason = "exit" /\ status = Some(TIMEOUT_EXIT_CODE)
           /\ exit[1] \notin {0, TIMEOUT_EXIT_CODE} => reason = "exit"

C12_Witness ==
    /\ pc = "done" /\ err = "none" /\ reason = "exit"
    /\ exit = Some(TIMEOUT_EXIT_CODE)
    /\ ~opt.error_duration /\ ~elapsed

\* number of records in the summary
Records == summary[1].successes + Len(summary[1].failures)

\* C13: in summary mode the number of records grows only by one and only in
\* the step that observes a child's exit code, and every such step makes a
\* record (a success for code 0, else a failure with the code), also the
\* step whose exit predicate ends the run; the number of records is at
\* least the iteration counter, at most the counter plus one, and at most
\* the number of children spawned; what is printed at the end is the summary.
C13_Summary ==
    /\ [](IsSome(summary)
            => /\ iteration <= Records
               /\ Records <= iteration + 1
               /\ Records <= Len(spawned)
               /\ (pc = "done" /\ err = "none")
                    => report = Some(SummaryPrint(summary[1])))
    /\ [][IsSome(summary)
            => /\ Records' # Records => (Records' = Records + 1 /\ WaitExit)
               /\ WaitExit
                    => IF status[1] = 0
                       THEN /\ summary'[1].successes
                                = summary[1].successes + 1
                            /\ summary'[1].failures = summary[1].failures
                       ELSE /\ summary'[1].successes = summary[1].successes
                            /\ summary'[1].failures
                                = Append(summary[1].failures, status[1])]_vars

C13_Witness ==
    /\ pc = "done" /\ reason = "exit" /\ IsSome(summary)
    /\ iteration = 1 /\ Records = 2
    /\ summary[1].successes = 1 /\ summary[1].failures = <<1>>

\* C14: the run is ended by the deadline only in a step out of the draining
\* loop, with a child spawned for the iteration; the delay between two
\* iterations ends only by going on to the start of the next iteration,
\* whether or not the deadline has elapsed.
C14_DelayNotGated ==
    /\ [][(reason' = "deadline" /\ reason # "deadline")
            => (pc = "inner" /\ child # "none"
                /\ Len(spawned) = iteration + 1)]_vars
    /\ [][pc = "sleep"
            => \/ UNCHANGED <<pc, exit, spawned, iteration>>
               \/ pc' = "start" /\ UNCHANGED <<exit, spawned, iteration>>]_vars
    /\ [](pc \in {"sleep", "start"} => IsNone(exit))

C14_Witness ==
    /\ pc = "sleep" /\ elapsed /\ IsNone(exit)
    /\ iteration = 1

\* C15: with neither the changed nor the unchanged predicate configured,
\* both memories are absent in every state, whatever lines were handled, and
\* check_line is called with no previous line.
C15_MemoryUntouched ==
    (~opt.until_changes /\ ~opt.until_same)
        => /\ IsNone(last_stdout)
           /\ IsNone(last_stderr)
           /\ IsSome(call) => IsNone(call[1].last)

C15_Witness ==
    /\ ~opt.until_changes /\ ~opt.until_same
    /\ IsSome(call) /\ ~call[1].stop
    /\ Len(seen["Stdout"]) = 2
    /\ iteration = 1

\* number of items the source has been asked for and has given
Taken == Len(spawned) + IF err = "spawn" THEN 1 ELSE 0

\* C16: the counter is 0 until the first iteration completes, changes only
\* by going up by one in a step that leaves the draining loop for the next
\* iteration; the k-th child spawned (k from 0) is given counter k and, with
\* an item source, the k-th item, without an item source no item; the items
\* left in the source are those after the ones taken, one per spawn attempt.
C16_CounterAndItems ==
    /\ [](/\ spawned = <<>> => iteration = 0
          /\ iteration <= Len(spawned)
          /\ Len(spawned) <= iteration + 1
          /\ \A k \in 1..Len(spawned) :
                /\ spawned[k].ACTUALCOUNT = k - 1
                /\ spawned[k].ITEM = IF IsSome(ItemSource(opt))
                                     THEN Some(Source[k]) ELSE None
          /\ IsSome(ItemSource(opt))
                => (/\ IsSome(items)
                    /\ Taken <= Len(Source)
                    /\ items[1] = SubSeq(Source, Taken + 1, Len(Source))))
    /\ [][iteration' # iteration
            => /\ iteration' = iteration + 1
               /\ pc = "inner" /\ pc' \in {"start", "sleep"}
               /\ spawned' = spawned /\ items' = items]_vars

C16_Witness ==
    /\ Len(spawned) = 2 /\ iteration = 1
    /\ spawned[2].ACTUALCOUNT = 1
    /\ spawned[2].ITEM = Some(<<"q">>)
    /\ items = Some(<<>>)

\* C17 as stated: when an exit predicate ends the run, no line the child
\* wrote is left unread.
C17_NoLineLost ==
    (pc = "done" /\ reason = "exit") => \A ch \in Channels : pipe[ch] = <<>>

\* C18 as stated: when a run ends without a fatal error, no spawned child
\* is left unreaped.
C18_NoChildLeft ==
    (pc = "done" /\ err = "none") => live = 0

\* ------------------------------------------------------------- fairness
\* a command that never exits
Hangs == Command({<<"x">>}, {})

LiveOpts ==
    {[Plain EXCEPT !.num = Some(n), !.every = TRUE] :
        n \in {0, MaxSpawn - 1}}
    \cup
    {[Plain EXCEPT !.num = Some(MaxSpawn - 1), !.ffor = Some(<<"p">>)],
     [Plain EXCEPT !.num = Some(1), !.for_duration = TRUE],
     [Plain EXCEPT !.for_duration = TRUE, !.every = TRUE],
     [Plain EXCEPT !.input = Hangs, !.until_time = TRUE,
                   !.error_duration = TRUE]}

InitLive == \E o \in LiveOpts : InitRun(o)

\* The sequential code between two await points runs on; every branch of
\* select! that stays ready is taken in the end (the branches are polled
\* from a random start), the deadline branch also when it is ready again
\* and again; failures are never forced.
EngineFair ==
    /\ WF_vars(ItemsExhausted \/ CountExhausted \/ StartChild)
    /\ WF_vars(Sleep)
    /\ WF_vars(\E ch \in Channels : LineOk(ch))
    /\ WF_vars(OutputNone)
    /\ WF_vars(WaitExit \/ WaitNoCode)
    /\ SF_vars(DeadlineKill \/ DeadlineKillFailed)

\* time passes
TimeFair == WF_vars(DeadlineElapse)

\* every child exits and closes its outputs in the end
ChildFair ==
    /\ WF_vars(\E st \in AllStatuses : ChildTerminate(st))
    /\ \A ch \in Channels : WF_vars(ChildClose(ch))

\* Runs under a fair select!, with children that may hang.
SpecDeadline == InitLive /\ [][Next]_vars /\ EngineFair /\ TimeFair

\* Runs under a fair select!, with children that exit and close their outputs.
SpecFair == InitLive /\ [][Next]_vars /\ EngineFair /\ TimeFair /\ ChildFair

\* the iteration has the child's termination and both outputs closed
ChildGone ==
    /\ pc = "inner"
    /\ child # "running"
    /\ \A ch \in Channels : ~wopen[ch]

\* C19: from a state of the draining loop in which the child has terminated
\* and both outputs are closed, with any lines still unread, the engine
\* leaves the loop: the iteration completes or the run ends; and with a
\* count limit and children that exit and close their outputs, the run ends.
C19_IterationCompletes ==
    /\ \A i \in 0..MaxSpawn :
          (ChildGone /\ iteration = i) ~> (pc = "done" \/ iteration > i)
    /\ IsSome(opt.num) => <>(pc = "done")

C19_Witness ==
    /\ pc = "done" /\ reason = "count"
    /\ iteration = MaxSpawn - 1
    /\ written > 0

\* the spawn bound of the model is reached
Capped == pc = "start" /\ Len(spawned) = MaxSpawn

\* C20: with a deadline and no item source, the run ends (or goes on beyond
\* the spawn bound of the model); it ends when the command never exits and
\* never closes its outputs.
C20_DeadlineEndsRun ==
    ((opt.for_duration \/ opt.until_time) /\ IsNone(ItemSource(opt)))
        => /\ <>(pc = "done" \/ Capped)
           /\ opt.input.exits = {} => <>(pc = "done")

C20_Witness ==
    /\ pc = "done" /\ reason = "deadline"
    /\ opt.input.exits = {} /\ IsNone(opt.num)
    /\ child = "reaped" /\ live = 0
    /\ exit = Some(TIMEOUT_EXIT_CODE)

====
